---- MODULE Spec2Model ----
(***************************************************************************)
(* Model of polylidar's setup.py: the module-level configuration (feature  *)
(* toggles, source list, include directories, the Extension target), the   *)
(* compiler capability probe has_flag, the standard-flag selector cpp_flag *)
(* and BuildExt.build_extensions.                                          *)
(*                                                                         *)
(* Python lists are objects: a list lives in `heap` and is named by its    *)
(* index, so that two names bound to one list (as `opts` and a c_opts      *)
(* entry are after line 123) see each other's appends.                     *)
(***************************************************************************)
EXTENDS Integers, Sequences, FiniteSets, TLC

\* ---------------------------------------------------------------- bounds
\* number of build_extensions invocations explored in one process
MaxBuilds == 2
\* number of Extension targets in self.extensions (the repository declares one)
NumTargets == 1

\* ---------------------------------------------------------- environment
\* raw values of an environment variable: unset, "0", "1", or not a number
RawEnv == {"absent", "0", "1", "x"}
\* compiler.compiler_type values the build may meet
CompilerTypes == {"msvc", "unix", "mingw32"}
\* what compiler.compile can do with the probe file
CompileOutcomes == {"ok", "CompileError", "OtherError"}
\* names tempfile.NamedTemporaryFile may pick
TmpNames == {"tmpA.cpp", "tmpB.cpp"}
\* no value
None == "None"

VARIABLES
  pc,                        \* position of the main flow (line about to run)
  PL_USE_ROBUST_PREDICATES,  \* int, line 10
  PL_USE_STD_UNORDERED_MAP,  \* int, line 17
  source_files,              \* line 60, extended at line 68
  include_dirs,              \* line 64, extended at line 69
  ext_modules,               \* line 71: sequence of Extension records
  darwin,                    \* sys.platform == 'darwin'
  heap,                      \* the flag lists: heap[r] is the content of list r
  c_opts,                    \* BuildExt.c_opts: family -> list reference
  ct,                        \* build_extensions local, line 122
  opts,                      \* build_extensions local, line 123 (a reference)
  hf,                        \* frame of the running has_flag call
  hf_ret,                    \* what the last has_flag call handed its caller
  tmpfiles,                  \* temporary files present in the file system
  probeLog,                  \* probes of the current build: <<flag, outcome>>
  cppRet,                    \* value returned by cpp_flag in this build
  loopIdx,                   \* index of the for loop at line 137
  cstep,                     \* external compile step: <<target, include index>>
  imported,                  \* sys.modules: dependencies imported so far
  consumed,                  \* include paths handed to the compiler as strings
  status,                    \* outcome of the current / last build
  builds,                    \* number of build_extensions invocations started
  done                       \* record of the completed builds

vars == <<pc, PL_USE_ROBUST_PREDICATES, PL_USE_STD_UNORDERED_MAP, source_files,
          include_dirs, ext_modules, darwin, heap, c_opts, ct, opts, hf, hf_ret,
          tmpfiles, probeLog, cppRet, loopIdx, cstep, imported, consumed,
          status, builds, done>>

configVars == <<PL_USE_ROBUST_PREDICATES, PL_USE_STD_UNORDERED_MAP,
                source_files, include_dirs, ext_modules, darwin>>
probeVars == <<hf, hf_ret, tmpfiles, probeLog>>
compileVars == <<cstep, imported, consumed>>

\* ------------------------------------------------------------- constants
version == "0.0.4"

base_source_files ==
  <<"polylidar/module.cpp", "polylidar/polylidar.cpp",
    "polylidar/delaunator.cpp", "polylidar/helper.cpp">>

robust_files ==
  <<"polylidar/predicates/constants.c", "polylidar/predicates/predicates.c",
    "polylidar/predicates/printing.c", "polylidar/predicates/random.c">>

PY_EXTENSION == "-DPY_EXTENSION"
ROBUST_MACRO == "-DPL_USE_ROBUST_PREDICATES"
UNORDERED_MACRO == "-DPL_USE_STD_UNORDERED_MAP"
WALL == "-Wall"
STD14 == "-std=c++14"
STD11 == "-std=c++11"
VISIBILITY == "-fvisibility=hidden"
EHSC == "/EHsc"
APPLE_FLAGS == <<"-stdlib=libc++", "-mmacosx-version-min=10.7">>

\* '-DVERSION_INFO="%s"' % version
UnixVersionInfo(v) == "-DVERSION_INFO=\"" \o v \o "\""
\* '/DVERSION_INFO=\\"%s\\"' % version
MsvcVersionInfo(v) == "/DVERSION_INFO=\\\"" \o v \o "\\\""

\* --------------------------------------------------------------- helpers
\* int(os.environ.get(NAME, 0)): the default 0 when unset, the parsed integer
\* otherwise; a non-numeric string raises ValueError
IsNumeric(raw) == raw \in {"absent", "0", "1"}
ParseInt(raw) == IF raw = "1" THEN 1 ELSE 0

\* Python truthiness of an int
Truthy(n) == n # 0

\* list.append on the list object r
HeapAppend(h, r, flag) == [h EXCEPT ![r] = Append(@, flag)]

\* the content of list object r
Contents(r) == heap[r]

\* a path as the sequence of its components
Dirname(p) == SubSeq(p, 1, Len(p) - 1)
Join(p, q) == p \o q

\* pybind11.get_include(user): where the installed package keeps its headers
PybindGetInclude(user) ==
  IF user THEN <<"home", ".local", "include", "python3.8", "pybind11">>
          ELSE <<"usr", "include", "python3.8", "pybind11">>
NumpyGetInclude == <<"usr", "lib", "python3.8", "numpy", "core", "include">>

\* get_pybind_include.__init__: stores user, ignores subdir, imports nothing
get_pybind_include(user, subdir) ==
  [kind |-> "pybind11", user |-> user, path |-> <<>>]
\* get_numpy_include.__init__: does nothing
get_numpy_include == [kind |-> "numpy", user |-> FALSE, path |-> <<>>]
\* a plain string entry of include_dirs
LocalPath(p) == [kind |-> "path", user |-> FALSE, path |-> p]

\* the module a provider's __str__ imports (none for a plain string)
NeededModule(inc) == IF inc.kind = "path" THEN None ELSE inc.kind

\* __str__ of an include_dirs entry, once its module is importable
StrOf(inc) ==
  CASE inc.kind = "pybind11" ->
         Join(Dirname(PybindGetInclude(inc.user)), <<"python3.8">>)
    [] inc.kind = "numpy" -> NumpyGetInclude
    [] OTHER -> inc.path

\* ------------------------------------------------------------------ Init
Init ==
  /\ pc = "l10"
  /\ PL_USE_ROBUST_PREDICATES = 0
  /\ PL_USE_STD_UNORDERED_MAP = 0
  /\ source_files = <<>>
  /\ include_dirs = <<>>
  /\ ext_modules = <<>>
  /\ darwin \in BOOLEAN
  /\ heap = <<>>
  /\ c_opts = [f \in {"msvc", "unix"} |-> 0]
  /\ ct = None
  /\ opts = 0
  /\ hf = [pc |-> "none", flag |-> None, file |-> None, outcome |-> None]
  /\ hf_ret = None
  /\ tmpfiles = {}
  /\ probeLog = <<>>
  /\ cppRet = None
  /\ loopIdx = 0
  /\ cstep = <<0, 0>>
  /\ imported = {}
  /\ consumed = <<>>
  /\ status = "none"
  /\ builds = 0
  /\ done = <<>>

\* ------------------------------------------------- module-level statements
buildVars == <<heap, c_opts, ct, opts, cppRet, loopIdx, status, builds, done>>

\* lines 9-14
ReadRobustToggle ==
  /\ pc = "l10"
  /\ \E raw \in RawEnv :
       IF IsNumeric(raw)
       THEN /\ PL_USE_ROBUST_PREDICATES' = ParseInt(raw)
            /\ pc' = "l17"
       ELSE /\ PL_USE_ROBUST_PREDICATES' = PL_USE_ROBUST_PREDICATES
            /\ pc' = "ValueError"
  /\ UNCHANGED <<PL_USE_STD_UNORDERED_MAP, source_files, include_dirs,
                 ext_modules, darwin>>
  /\ UNCHANGED <<buildVars, probeVars, compileVars>>

\* lines 16-21
ReadUnorderedToggle ==
  /\ pc = "l17"
  /\ \E raw \in RawEnv :
       IF IsNumeric(raw)
       THEN /\ PL_USE_STD_UNORDERED_MAP' = ParseInt(raw)
            /\ pc' = "l60"
       ELSE /\ PL_USE_STD_UNORDERED_MAP' = PL_USE_STD_UNORDERED_MAP
            /\ pc' = "ValueError"
  /\ UNCHANGED <<PL_USE_ROBUST_PREDICATES, source_files, include_dirs,
                 ext_modules, darwin>>
  /\ UNCHANGED <<buildVars, probeVars, compileVars>>

\* variant: the providers locate their packages when they are constructed
DefineLists_eager ==
  /\ pc = "l60"
  /\ source_files' = base_source_files
  /\ include_dirs' = <<get_pybind_include(FALSE, FALSE),
                       get_pybind_include(TRUE, FALSE),
                       get_pybind_include(FALSE, TRUE),
                       get_numpy_include,
                       LocalPath(<<"polylidar">>)>>
  /\ imported' = {"pybind11", "numpy"}
  /\ pc' = "l67"
  /\ UNCHANGED <<PL_USE_ROBUST_PREDICATES, PL_USE_STD_UNORDERED_MAP,
                 ext_modules, darwin>>
  /\ UNCHANGED <<heap, c_opts, ct, opts, cppRet, loopIdx, status, builds, done>>
  /\ UNCHANGED <<hf, hf_ret, tmpfiles, probeLog, cstep, consumed>>

\* lines 59-64: the lists, with the deferred providers constructed
DefineLists ==
  /\ pc = "l60"
  /\ source_files' = base_source_files
  /\ include_dirs' = <<get_pybind_include(FALSE, FALSE),
                       get_pybind_include(TRUE, FALSE),
                       get_pybind_include(FALSE, TRUE),
                       get_numpy_include,
                       LocalPath(<<"polylidar">>)>>
  /\ pc' = "l67"
  /\ UNCHANGED <<PL_USE_ROBUST_PREDICATES, PL_USE_STD_UNORDERED_MAP,
                 ext_modules, darwin>>
  /\ UNCHANGED <<buildVars, probeVars, compileVars>>

\* variant: the robust group is added whatever the toggle says
ExtendRobust_always ==
  /\ pc = "l67"
  /\ source_files' = source_files \o robust_files
  /\ include_dirs' =
       Append(include_dirs, LocalPath(<<"polylidar", "predicates">>))
  /\ pc' = "l71"
  /\ UNCHANGED <<PL_USE_ROBUST_PREDICATES, PL_USE_STD_UNORDERED_MAP,
                 ext_modules, darwin>>
  /\ UNCHANGED <<heap, c_opts, ct, opts, cppRet, loopIdx, status, builds, done>>
  /\ UNCHANGED <<hf, hf_ret, tmpfiles, probeLog, cstep, imported, consumed>>

\* lines 66-69
ExtendRobust ==
  /\ pc = "l67"
  /\ IF Truthy(PL_USE_ROBUST_PREDICATES)
     THEN /\ source_files' = source_files \o robust_files
          /\ include_dirs' =
               Append(include_dirs, LocalPath(<<"polylidar", "predicates">>))
     ELSE UNCHANGED <<source_files, include_dirs>>
  /\ pc' = "l71"
  /\ UNCHANGED <<PL_USE_ROBUST_PREDICATES, PL_USE_STD_UNORDERED_MAP,
                 ext_modules, darwin>>
  /\ UNCHANGED <<buildVars, probeVars, compileVars>>

\* lines 71-78: each Extension starts with an empty extra_compile_args list
\* of its own
DefineExtModules ==
  /\ pc = "l71"
  /\ ext_modules' = [t \in 1..NumTargets |->
                       [name |-> "polylidar", sources |-> source_files,
                        include_dirs |-> include_dirs,
                        extra_compile_args |-> Len(heap) + t]]
  /\ heap' = heap \o [t \in 1..NumTargets |-> <<>>]
  /\ pc' = "l113"
  /\ UNCHANGED <<PL_USE_ROBUST_PREDICATES, PL_USE_STD_UNORDERED_MAP,
                 source_files, include_dirs, darwin>>
  /\ UNCHANGED <<c_opts, ct, opts, cppRet, loopIdx, status, builds, done>>
  /\ UNCHANGED <<probeVars, compileVars>>

\* lines 113-119: the class body of BuildExt
DefineBuildExt ==
  /\ pc = "l113"
  /\ c_opts' = [f \in {"msvc", "unix"} |->
                  IF f = "msvc" THEN Len(heap) + 1 ELSE Len(heap) + 2]
  /\ heap' = heap \o << <<EHSC>>, IF darwin THEN APPLE_FLAGS ELSE <<>> >>
  /\ pc' = "idle"
  /\ UNCHANGED configVars
  /\ UNCHANGED <<ct, opts, cppRet, loopIdx, status, builds, done>>
  /\ UNCHANGED <<probeVars, compileVars>>

\* ------------------------------------------------------------- has_flag
\* variant: the file is removed only when the block is left without an
\* exception in flight
TempFileExit_leak(fs, f, outcome) ==
  IF outcome = "OtherError" THEN fs ELSE fs \ {f}

\* leaving the `with` block of has_flag (lines 88-94) closes the
\* NamedTemporaryFile, which deletes it, whatever way the block is left
TempFileExit(fs, f, outcome) == fs \ {f}

\* variant: a bare `except:` turns every failure into False
HasFlagResult_swallow(outcome) ==
  IF outcome = "ok" THEN "True" ELSE "False"

\* what has_flag hands its caller: True after a compile that did not raise,
\* False after CompileError (line 93), any other exception propagates
HasFlagResult(outcome) ==
  CASE outcome = "ok" -> "True"
    [] outcome = "CompileError" -> "False"
    [] OTHER -> "raise"

noFrame == [pc |-> "none", flag |-> None, file |-> None, outcome |-> None]

\* the flag each call site of has_flag passes (lines 102, 104, 133)
SiteFlag(site) ==
  CASE site = "l102" -> STD14
    [] site = "l104" -> STD11
    [] OTHER -> VISIBILITY

\* a call of has_flag from line 102, 104 or 133
HasFlagCall ==
  /\ pc \in {"l102", "l104", "l133"}
  /\ hf.pc = "none"
  /\ hf_ret = None
  /\ hf' = [noFrame EXCEPT !.pc = "l88", !.flag = SiteFlag(pc)]
  /\ UNCHANGED <<pc, hf_ret, tmpfiles, probeLog>>
  /\ UNCHANGED <<configVars, buildVars, compileVars>>

\* lines 88-89: create the temporary source file and write the program
HasFlagCreate ==
  /\ hf.pc = "l88"
  /\ \E f \in TmpNames \ tmpfiles :
       /\ tmpfiles' = tmpfiles \cup {f}
       /\ hf' = [hf EXCEPT !.pc = "l91", !.file = f]
  /\ UNCHANGED <<pc, hf_ret, probeLog>>
  /\ UNCHANGED <<configVars, buildVars, compileVars>>

\* line 91: the injected compile operation accepts, rejects or fails otherwise
HasFlagCompile ==
  /\ hf.pc = "l91"
  /\ \E outcome \in CompileOutcomes :
       /\ hf' = [hf EXCEPT !.pc = "exit", !.outcome = outcome]
       /\ probeLog' = Append(probeLog, <<hf.flag, outcome>>)
  /\ UNCHANGED <<pc, hf_ret, tmpfiles>>
  /\ UNCHANGED <<configVars, buildVars, compileVars>>

\* lines 92-94: leave the with block and return / raise
HasFlagExit ==
  /\ hf.pc = "exit"
  /\ tmpfiles' = TempFileExit(tmpfiles, hf.file, hf.outcome)
  /\ hf_ret' = HasFlagResult(hf.outcome)
  /\ hf' = noFrame
  /\ UNCHANGED <<pc, probeLog>>
  /\ UNCHANGED <<configVars, buildVars, compileVars>>

\* ------------------------------------------------------------- cpp_flag
\* variant: the second candidate is returned without looking at its probe
cpp_flag_unchecked(site, r) ==
  CASE r = "raise" -> [k |-> "propagate", v |-> "UnexpectedFailure"]
    [] r = "True" /\ site = "l102" -> [k |-> "return", v |-> STD14]
    [] r = "False" /\ site = "l102" -> [k |-> "goto", v |-> "l104"]
    [] OTHER -> [k |-> "return", v |-> STD11]

\* lines 102-108: what cpp_flag does with the answer r of the probe it made
\* at `site`
cpp_flag(site, r) ==
  CASE r = "raise" -> [k |-> "propagate", v |-> "UnexpectedFailure"]
    [] r = "True" /\ site = "l102" -> [k |-> "return", v |-> STD14]
    [] r = "False" /\ site = "l102" -> [k |-> "goto", v |-> "l104"]
    [] r = "True" /\ site = "l104" -> [k |-> "return", v |-> STD11]
    [] OTHER -> [k |-> "propagate", v |-> "UnsupportedCompiler"]

\* ----------------------------------------------------- build_extensions
\* lines 121-123: a build starts; opts is the table's own list for the
\* family, or a new empty list for a family the table does not know
BuildStart ==
  /\ pc = "idle"
  /\ builds < MaxBuilds
  /\ \E family \in CompilerTypes :
       /\ ct' = family
       /\ IF family \in DOMAIN c_opts
          THEN /\ opts' = c_opts[family]
               /\ heap' = heap
          ELSE /\ opts' = Len(heap) + 1
               /\ heap' = Append(heap, <<>>)
  /\ builds' = builds + 1
  /\ status' = "running"
  /\ probeLog' = <<>>
  /\ cppRet' = None
  /\ consumed' = <<>>
  /\ loopIdx' = 0
  /\ cstep' = <<0, 0>>
  /\ pc' = "l124"
  /\ UNCHANGED <<c_opts, done, hf, hf_ret, tmpfiles, imported>>
  /\ UNCHANGED configVars

\* the frame of the lines that only append to opts
AppendFrame ==
  /\ UNCHANGED <<c_opts, ct, opts, cppRet, loopIdx, status, builds, done>>
  /\ UNCHANGED <<configVars, probeVars, compileVars>>

\* line 124
AppendPyExtension ==
  /\ pc = "l124"
  /\ heap' = HeapAppend(heap, opts, PY_EXTENSION)
  /\ pc' = "l125"
  /\ AppendFrame

\* lines 125-126
AppendRobustMacro ==
  /\ pc = "l125"
  /\ heap' = IF Truthy(PL_USE_ROBUST_PREDICATES)
             THEN HeapAppend(heap, opts, ROBUST_MACRO) ELSE heap
  /\ pc' = "l127"
  /\ AppendFrame

\* lines 127-128
AppendUnorderedMacro ==
  /\ pc = "l127"
  /\ heap' = IF Truthy(PL_USE_STD_UNORDERED_MAP)
             THEN HeapAppend(heap, opts, UNORDERED_MACRO) ELSE heap
  /\ pc' = "l129"
  /\ AppendFrame

\* variant: the msvc family also goes through standard-flag selection
FamilyBranch_msvcProbes ==
  /\ pc = "l129"
  /\ CASE ct = "unix" ->
            /\ heap' = HeapAppend(HeapAppend(heap, opts,
                                             UnixVersionInfo(version)),
                                  opts, WALL)
            /\ pc' = "l102"
       [] ct = "msvc" ->
            /\ heap' = HeapAppend(heap, opts, MsvcVersionInfo(version))
            /\ pc' = "l102"
       [] OTHER ->
            /\ heap' = heap
            /\ pc' = "l137"
  /\ UNCHANGED <<c_opts, ct, opts, cppRet, loopIdx, status, builds, done>>
  /\ UNCHANGED <<PL_USE_ROBUST_PREDICATES, PL_USE_STD_UNORDERED_MAP,
                 source_files, include_dirs, ext_modules, darwin>>
  /\ UNCHANGED <<hf, hf_ret, tmpfiles, probeLog, cstep, imported, consumed>>

\* lines 129-131 and 135-136: the branch on the compiler family
FamilyBranch ==
  /\ pc = "l129"
  /\ CASE ct = "unix" ->
            /\ heap' = HeapAppend(HeapAppend(heap, opts,
                                             UnixVersionInfo(version)),
                                  opts, WALL)
            /\ pc' = "l102"
       [] ct = "msvc" ->
            /\ heap' = HeapAppend(heap, opts, MsvcVersionInfo(version))
            /\ pc' = "l137"
       [] OTHER ->
            /\ heap' = heap
            /\ pc' = "l137"
  /\ AppendFrame

\* an exception leaves build_extensions
Raise(kind) ==
  /\ status' = kind
  /\ pc' = "idle"

\* lines 102-108: cpp_flag continues after a probe answered
CppFlagStep ==
  /\ pc \in {"l102", "l104"}
  /\ hf_ret # None
  /\ LET a == cpp_flag(pc, hf_ret) IN
       CASE a.k = "return" ->
              /\ cppRet' = a.v
              /\ pc' = "l132"
              /\ UNCHANGED status
         [] a.k = "goto" ->
              /\ pc' = a.v
              /\ UNCHANGED <<cppRet, status>>
         [] OTHER ->
              /\ Raise(a.v)
              /\ UNCHANGED cppRet
  /\ hf_ret' = None
  /\ UNCHANGED <<heap, c_opts, ct, opts, loopIdx, builds, done>>
  /\ UNCHANGED <<hf, tmpfiles, probeLog>>
  /\ UNCHANGED <<configVars, compileVars>>

\* line 132: opts.append(cpp_flag(self.compiler))
AppendStdFlag ==
  /\ pc = "l132"
  /\ heap' = HeapAppend(heap, opts, cppRet)
  /\ pc' = "l133"
  /\ AppendFrame

\* lines 133-134: the visibility probe answered
VisibilityStep ==
  /\ pc = "l133"
  /\ hf_ret # None
  /\ CASE hf_ret = "True" ->
            /\ heap' = HeapAppend(heap, opts, VISIBILITY)
            /\ pc' = "l137"
            /\ UNCHANGED status
       [] hf_ret = "False" ->
            /\ heap' = heap
            /\ pc' = "l137"
            /\ UNCHANGED status
       [] OTHER ->
            /\ heap' = heap
            /\ Raise("UnexpectedFailure")
  /\ hf_ret' = None
  /\ UNCHANGED <<c_opts, ct, opts, cppRet, loopIdx, builds, done>>
  /\ UNCHANGED <<hf, tmpfiles, probeLog>>
  /\ UNCHANGED <<configVars, compileVars>>

\* lines 137-138: one iteration of the loop binds the target's
\* extra_compile_args to the list opts names
AssignFlags ==
  /\ pc = "l137"
  /\ IF loopIdx < Len(ext_modules)
     THEN /\ ext_modules' = [ext_modules EXCEPT
                               ![loopIdx + 1].extra_compile_args = opts]
          /\ loopIdx' = loopIdx + 1
          /\ pc' = pc
          /\ UNCHANGED cstep
     ELSE /\ pc' = "l139"
          /\ cstep' = <<1, 1>>
          /\ UNCHANGED <<ext_modules, loopIdx>>
  /\ UNCHANGED <<PL_USE_ROBUST_PREDICATES, PL_USE_STD_UNORDERED_MAP,
                 source_files, include_dirs, darwin>>
  /\ UNCHANGED <<heap, c_opts, ct, opts, cppRet, status, builds, done>>
  /\ UNCHANGED <<probeVars, imported, consumed>>

\* line 139, the compilation step of build_ext: it turns every include
\* directory of every target into a string; a provider's __str__ (lines
\* 36-44, 55-57) imports its module there, which fails when the module is
\* not installed
ConsumeInclude ==
  /\ pc = "l139"
  /\ cstep[1] <= Len(ext_modules)
  /\ LET ext == ext_modules[cstep[1]]
         inc == ext.include_dirs[cstep[2]]
         m == NeededModule(inc)
         advance ==
           /\ consumed' = Append(consumed, StrOf(inc))
           /\ cstep' = IF cstep[2] < Len(ext.include_dirs)
                       THEN <<cstep[1], cstep[2] + 1>>
                       ELSE <<cstep[1] + 1, 1>>
           /\ UNCHANGED <<pc, status>>
     IN \/ /\ m \in imported \cup {None}
           /\ advance
           /\ UNCHANGED imported
        \/ /\ m \notin imported \cup {None}
           /\ imported' = imported \cup {m}
           /\ advance
        \/ /\ m \notin imported \cup {None}
           /\ Raise("MissingDependency")
           /\ UNCHANGED <<imported, consumed, cstep>>
  /\ UNCHANGED <<heap, c_opts, ct, opts, cppRet, loopIdx, builds, done>>
  /\ UNCHANGED <<configVars, probeVars>>

\* line 139 returns or raises: the external toolchain compiled every target,
\* or failed, and its failure passes through
BuildFinish ==
  /\ pc = "l139"
  /\ cstep[1] > Len(ext_modules)
  /\ \/ /\ status' = "built"
        /\ done' = Append(done, [ct |-> ct, probes |-> probeLog,
                                 flags |-> [t \in 1..Len(ext_modules) |->
                                   heap[ext_modules[t].extra_compile_args]]])
     \/ /\ status' = "ExternalFailure"
        /\ done' = done
  /\ pc' = "idle"
  /\ UNCHANGED <<heap, c_opts, ct, opts, cppRet, loopIdx, builds>>
  /\ UNCHANGED <<configVars, probeVars, compileVars>>

\* --------------------------------------------------------- specification
Next ==
  \/ ReadRobustToggle
  \/ ReadUnorderedToggle
  \/ DefineLists
  \/ ExtendRobust
  \/ DefineExtModules
  \/ DefineBuildExt
  \/ BuildStart
  \/ AppendPyExtension
  \/ AppendRobustMacro
  \/ AppendUnorderedMacro
  \/ FamilyBranch
  \/ HasFlagCall
  \/ HasFlagCreate
  \/ HasFlagCompile
  \/ HasFlagExit
  \/ CppFlagStep
  \/ AppendStdFlag
  \/ VisibilityStep
  \/ AssignFlags
  \/ ConsumeInclude
  \/ BuildFinish

Spec == Init /\ [][Next]_vars

\* ------------------------------------------------------------ properties
Has(s, x) == \E i \in DOMAIN s : s[i] = x
Count(s, x) == Cardinality({i \in DOMAIN s : s[i] = x})
NoDup(s) == \A i, j \in DOMAIN s : s[i] = s[j] => i = j
Last(s) == s[Len(s)]

A_on == Truthy(PL_USE_ROBUST_PREDICATES)
B_on == Truthy(PL_USE_STD_UNORDERED_MAP)

Targets == DOMAIN ext_modules
\* the flag list target t holds now
Flags(t) == heap[ext_modules[t].extra_compile_args]
\* line 138 has bound target t to a list other than the empty one it was
\* constructed with
Assigned(t) == ext_modules[t].extra_compile_args # t

\* the baseline the platform options table is documented to give
Baseline(family) ==
  CASE family = "msvc" -> <<EHSC>>
    [] family = "unix" -> IF darwin THEN APPLE_FLAGS ELSE <<>>
    [] OTHER -> <<>>

\* the macros every family gets
Macros ==
  <<PY_EXTENSION>> \o (IF A_on THEN <<ROBUST_MACRO>> ELSE <<>>)
                   \o (IF B_on THEN <<UNORDERED_MACRO>> ELSE <<>>)

\* the flag list of one build composed from scratch
Composed(family, std, vis) ==
  Baseline(family) \o Macros \o
  (CASE family = "unix" ->
          <<UnixVersionInfo(version), WALL, std>> \o
          (IF vis THEN <<VISIBILITY>> ELSE <<>>)
     [] family = "msvc" -> <<MsvcVersionInfo(version)>>
     [] OTHER -> <<>>)

\* C1: whatever the two toggles and the compiler family, a target's sources
\* hold the four robust-predicate files iff PL_USE_ROBUST_PREDICATES is set
\* and hold no file twice; a target's flag list holds
\* -DPL_USE_ROBUST_PREDICATES iff that toggle is set,
\* -DPL_USE_STD_UNORDERED_MAP iff PL_USE_STD_UNORDERED_MAP is set, and always
\* -DPY_EXTENSION.
C1_TogglesDecideSourcesAndMacros ==
  \A t \in Targets :
    /\ (\A i \in DOMAIN robust_files :
          Has(ext_modules[t].sources, robust_files[i]) <=> A_on)
    /\ NoDup(ext_modules[t].sources)
    /\ Assigned(t) =>
         /\ Has(Flags(t), ROBUST_MACRO) <=> A_on
         /\ Has(Flags(t), UNORDERED_MACRO) <=> B_on
         /\ Has(Flags(t), PY_EXTENSION)

C1_Witness ==
  /\ status = "built"
  /\ A_on /\ ~B_on
  /\ \A t \in Targets : Assigned(t) /\ Has(Flags(t), ROBUST_MACRO)

\* C2: cpp_flag probes -std=c++14 first and -std=c++11 only after
\* -std=c++14 was rejected; it returns -std=c++14 when the first probe
\* accepts, -std=c++11 when the first rejects and the second accepts, and
\* raises (returning no flag) when both reject.
C2_CppFlagPreference ==
  /\ \A i \in DOMAIN probeLog :
       /\ probeLog[i][1] = STD14 => i = 1
       /\ probeLog[i][1] = STD11 =>
            i = 2 /\ probeLog[1] = <<STD14, "CompileError">>
  /\ cppRet # None =>
       \/ cppRet = STD14 /\ probeLog[1] = <<STD14, "ok">>
       \/ /\ cppRet = STD11
          /\ probeLog[1] = <<STD14, "CompileError">>
          /\ probeLog[2] = <<STD11, "ok">>
  /\ (hf.pc = "none" /\ hf_ret = None /\ probeLog # <<>>) =>
       /\ probeLog[1] = <<STD14, "ok">> => cppRet = STD14
       /\ (Len(probeLog) >= 2 /\ probeLog[2] = <<STD11, "ok">>) =>
            cppRet = STD11
       /\ (Len(probeLog) >= 2 /\ probeLog[2] = <<STD11, "CompileError">>) <=>
            (status = "UnsupportedCompiler")
  /\ status = "UnsupportedCompiler" => cppRet = None /\ pc = "idle"

C2_Witness ==
  /\ status = "UnsupportedCompiler"
  /\ probeLog = << <<STD14, "CompileError">>, <<STD11, "CompileError">> >>

\* C3: once has_flag has returned or raised, the temporary source file it
\* created is gone, on each of its three exit paths and after any number of
\* probes.
C3_NoProbeFileLeft ==
  hf.pc = "none" => tmpfiles = {}

C3_Witness ==
  /\ hf.pc = "none"
  /\ hf_ret = "raise"
  /\ builds = MaxBuilds
  /\ Len(probeLog) = 3
  /\ tmpfiles = {}

\* C4: has_flag returns True exactly when the compile operation did not
\* raise, False exactly when it raised CompileError, and lets any other
\* failure through to its caller, where it ends the build instead of being
\* read as "flag unsupported".
C4_HasFlagResult ==
  /\ hf_ret # None =>
       /\ hf_ret = "True" <=> Last(probeLog)[2] = "ok"
       /\ hf_ret = "False" <=> Last(probeLog)[2] = "CompileError"
       /\ hf_ret = "raise" <=> Last(probeLog)[2] = "OtherError"
  /\ (hf.pc = "none" /\ hf_ret = None /\ probeLog # <<>>) =>
       (Last(probeLog)[2] = "OtherError" <=> status = "UnexpectedFailure")
  /\ status = "UnexpectedFailure" => pc = "idle"

C4_Witness ==
  /\ status = "UnexpectedFailure"
  /\ Last(probeLog) = <<VISIBILITY, "OtherError">>

\* the msvc list of a process whose toggles are off: /EHsc, then
\* -DPY_EXTENSION and the version macro once per msvc build so far
MsvcShape(f) ==
  /\ Len(f) >= 3
  /\ Len(f) % 2 = 1
  /\ f[1] = EHSC
  /\ \A i \in 2..Len(f) :
       f[i] = IF i % 2 = 0 THEN PY_EXTENSION ELSE MsvcVersionInfo(version)

C6_UnixFlags ==
  (status = "built" /\ ct = "unix" /\ ~darwin) =>
    /\ Len(probeLog) \in 2..3
    /\ Last(probeLog)[1] = VISIBILITY
    /\ \A i \in 1..(Len(probeLog) - 1) : probeLog[i][1] \in {STD14, STD11}
    /\ \A t \in Targets :
         /\ Has(Flags(t), UnixVersionInfo(version))
         /\ Count(Flags(t), STD14) + Count(Flags(t), STD11) = 1
         /\ Has(Flags(t), cppRet)
         /\ Has(Flags(t), VISIBILITY) <=> Last(probeLog)[2] = "ok"
         /\ (A_on /\ ~B_on /\ probeLog[1] = <<STD14, "ok">>) =>
              /\ Has(Flags(t), STD14)
              /\ Has(Flags(t), PY_EXTENSION)
              /\ Has(Flags(t), ROBUST_MACRO)
              /\ ~Has(Flags(t), UNORDERED_MACRO)

\* C7: the list build_extensions takes from the options table at line 123
\* is, in every build, ['/EHsc'] for msvc, empty for unix on a non-Apple
\* host, and exactly the two Apple flags for unix on an Apple host.
C7_BaselineFixed ==
  (pc = "l124" /\ ct \in {"msvc", "unix"}) => Contents(opts) = Baseline(ct)

\* C8: building the configuration (include_dirs, the Extension target)
\* imports neither pybind11 nor numpy; a dependency is imported only when the
\* compilation step turns its include path into a string, after the
\* configuration and the flag list are complete, and a dependency missing
\* then fails the build at that use and at no other point.
C8_DeferredResolution ==
  /\ [](pc \in {"l10", "l17", "l60", "l67", "l71", "l113", "ValueError"} =>
          imported = {} /\ consumed = <<>>)
  /\ [](builds = 0 => imported = {} /\ consumed = <<>>)
  /\ [][(\/ imported' # imported
          \/ (consumed' # consumed /\ consumed' # <<>>)
          \/ (status' = "MissingDependency" /\ status # "MissingDependency"))
        => /\ pc = "l139"
           /\ cstep[1] \in Targets
           /\ \A t \in Targets : Assigned(t)
           /\ status' = "MissingDependency" =>
                /\ pc' = "idle"
                /\ NeededModule(ext_modules[cstep[1]].include_dirs[cstep[2]])
                     \notin imported \cup {None}]_vars

C8_Witness ==
  /\ status = "MissingDependency"
  /\ imported = {"pybind11"}
  /\ Len(consumed) = 3

\* C9: at every moment a target's flag list is either absent (still empty)
\* or a complete composition; an aborted build leaves no target with a
\* list, and an assigned list is never changed afterwards.
C9_AbsentOrComplete ==
  \A t \in Targets :
    \/ Flags(t) = <<>>
    \/ \E family \in CompilerTypes, std \in {STD14, STD11}, vis \in BOOLEAN :
         Flags(t) = Composed(family, std, vis)

\* C10: build_extensions leaves BuildExt.c_opts as the class body made it,
\* no target's flag list is a list of the table, and two builds with the
\* same family and the same probe answers end with the same flag lists.
C10_TableUnchanged ==
  c_opts["msvc"] # 0 =>
    /\ heap[c_opts["msvc"]] = Baseline("msvc")
    /\ heap[c_opts["unix"]] = Baseline("unix")
    /\ \A t \in Targets :
         ext_modules[t].extra_compile_args \notin {c_opts[f] : f \in DOMAIN c_opts}
    /\ \A i, j \in DOMAIN done :
         (done[i].ct = done[j].ct /\ done[i].probes = done[j].probes) =>
           done[i].flags = done[j].flags

====
